---- MODULE Spec2Model ----
(***************************************************************************)
(* Model of bsrec (src/src/main.rs): a command-line client that resolves   *)
(* an endpoint, optionally starts a loopback debug sender, forks a         *)
(* background receive loop, waits for a time and/or message-count bound    *)
(* and tears the session down in Context::drop.                            *)
(*                                                                         *)
(* The foreground thread is `main`; its position is pc.  The background    *)
(* receive thread started by Receiver::fork has its position in bgpc.      *)
(* The bsread library (Receiver, debug sender, dispatcher client) is an    *)
(* external crate: its calls are modelled at the call sites of main.rs     *)
(* with every outcome the call's type admits (Ok / Err, or a panic of the  *)
(* .expect that wraps it).                                                 *)
(***************************************************************************)
EXTENDS Integers, Sequences, FiniteSets, TLC

\* ---------------------------------------------------------------- bounds
MaxMsgs == 1        \* largest value given to --messages
MaxT == 1           \* largest value given to --time (ms)
MaxUpstream == 2    \* most messages the upstream produces in a run
MaxTime == 2        \* the clock stops advancing here (ms)
MaxLevel == 1       \* largest value given to --level
MaxPrintLevel == 5  \* largest value given to --level when the presenter is checked

\* ------------------------------------------------------ program constants
DebugPort == 10300              \* main.rs:28  start_sender(10300, ...)
DefaultLevel == 3               \* main.rs:32  level None => 3
DefaultSize == 10               \* main.rs:32  size None => 10
DefaultMessages == 1            \* main.rs:231 messages=Some(1)
SenderInterval == 100           \* main.rs:28  start_sender(.., 100, ..)
ExitFailure == 1                \* main.rs:65  std::process::exit(1)
ExitSuccess == 0                \* main.rs:237 main returns
PanicExitCode == 101            \* main.rs:28,30,31,235 .expect(..) panics in main
ForeverMillis == 1000000000     \* main.rs:40  u64::MAX ms, beyond any clock value
LoopbackEndpoint == "tcp://127.0.0.1:10300"   \* main.rs:216
LoopbackPort == 10300           \* main.rs:216 the port named by the loopback endpoint

\* ------------------------------------------------------- option values
None == [some |-> FALSE, val |-> 0]
Some(v) == [some |-> TRUE, val |-> v]
NoUrl == [some |-> FALSE, val |-> ""]

\* A command-line value is text: either a decimal number or something else.
Num(n) == [num |-> TRUE, val |-> n]
Junk == [num |-> FALSE, val |-> 0]
NoText == [given |-> FALSE, text |-> Junk]
Text(t) == [given |-> TRUE, text |-> t]

\* str::parse::<i64>: any decimal number (main.rs:165)
parse_i64(text) == IF text.num THEN [ok |-> TRUE, val |-> text.val]
                   ELSE [ok |-> FALSE, val |-> 0]
\* str::parse::<u32>, ::<u64>, ::<usize>: a negative number is rejected
\* (main.rs:174, 184, 193)
parse_unsigned(text) == IF text.num /\ text.val >= 0
                        THEN [ok |-> TRUE, val |-> text.val]
                        ELSE [ok |-> FALSE, val |-> 0]

\* ----------------------------------------------------------- input sets
UrlArgs == {NoUrl, [some |-> TRUE, val |-> "tcp://host:9999"]}
ChannelArgs == {<<>>, <<"CH1">>}
TimeArgs == {NoText, Text(Junk)} \cup {Text(Num(n)) : n \in -1..MaxT}
MessagesArgs == {NoText, Text(Junk), Text(Num(-1))} \cup {Text(Num(n)) : n \in 0..MaxMsgs}
LevelArgs == {NoText, Text(Junk)} \cup {Text(Num(n)) : n \in 0..MaxLevel}
SizeArgs == {NoText, Text(Junk)}
DispatcherEndpoint == "tcp://dispatcher-stream:9000"

VARIABLES
  args,            \* the command line (clap matches)
  pc,              \* position of main
  exitCode,        \* process exit status, -1 while running
  failure,         \* which fatal error ended the run, "none" otherwise
  socket_type, debug, time, messages, level, size, url, channels, \* locals of main
  endpoint,        \* resolved endpoint, "" before resolution
  provenance,      \* which branch of the match at main.rs:213 produced endpoint
  dispatcherCalls, \* calls of dispatcher::request_stream
  sender,          \* debug sender: [state, socket, port, starts]
  bsreadOpen,      \* Bsread::new() succeeded
  receiver,        \* [made, endpoint, socket_type]
  ctx,             \* the Context value: [live, level, size, debug]
  bgpc,            \* background loop: "none", "idle", "busy", "exited"
  bound,           \* num_messages handed to fork
  interrupted,     \* the receiver's interrupt flag
  bgError,         \* the background thread ended with an error
  delivered,       \* calls of on_message made by the loop
  stats,           \* messages_received counter of the receiver
  upstream,        \* messages the upstream will still produce
  upstreamTotal,   \* messages the upstream produces in the whole run
  printed,         \* arguments of the latest debug::print_message call
  now,             \* clock, ms
  forkTime,        \* clock when fork returned, -1 before
  wakeAt,          \* clock at which thread::sleep may return, -1 if no sleep
  interruptTime,   \* clock at the first interrupt(), -1 before
  bgExitTime,      \* clock when the background thread exited, -1 before
  startResult,     \* what Context::start returned: "none", "Ok", "Err"
  tdlog,           \* the calls made by Context::drop, in order
  deliveredAtInterrupt, \* delivered when interrupt() was called, -1 before
  deliveredAtJoin, \* delivered when the join() of drop returned, -1 before
  snapshot         \* messages_received printed by print_stats_rec, -1 if none

mainVars == <<args, pc, exitCode, failure, socket_type, debug, time, messages,
              level, size, url, channels, endpoint, provenance, dispatcherCalls>>
newVars == <<sender, bsreadOpen, receiver, ctx>>
bgVars == <<bgpc, bound, interrupted, bgError, delivered, stats, upstream,
            upstreamTotal, printed>>
clockVars == <<now, forkTime, wakeAt, interruptTime, bgExitTime>>
dropVars == <<startResult, tdlog, deliveredAtInterrupt, deliveredAtJoin, snapshot>>
vars == <<mainVars, newVars, bgVars, clockVars, dropVars>>

NoSender == [state |-> "none", socket |-> "", port |-> 0, starts |-> 0]
NoReceiver == [made |-> FALSE, endpoint |-> "", socket_type |-> ""]
NoContext == [live |-> FALSE, level |-> 0, size |-> 0, debug |-> FALSE]
NoPrint == [called |-> FALSE, size |-> 0, print_main_header |-> FALSE,
            print_data_header |-> FALSE, print_meta |-> FALSE,
            print_data |-> FALSE]

\* The state of the process when main is entered, whatever the command line.
InitState ==
  /\ upstream \in 0..MaxUpstream
  /\ upstreamTotal = upstream
  /\ pc = "parse"
  /\ exitCode = -1
  /\ failure = "none"
  /\ socket_type = "" /\ debug = FALSE
  /\ time = None /\ messages = None /\ level = None /\ size = None
  /\ url = NoUrl /\ channels = <<>>
  /\ endpoint = "" /\ provenance = "none" /\ dispatcherCalls = 0
  /\ sender = NoSender /\ bsreadOpen = FALSE
  /\ receiver = NoReceiver /\ ctx = NoContext
  /\ bgpc = "none" /\ bound = None /\ interrupted = FALSE /\ bgError = FALSE
  /\ delivered = 0 /\ stats = 0 /\ printed = NoPrint
  /\ now = 0 /\ forkTime = -1 /\ wakeAt = -1 /\ interruptTime = -1
  /\ bgExitTime = -1
  /\ startResult = "none" /\ tdlog = <<>>
  /\ deliveredAtInterrupt = -1 /\ deliveredAtJoin = -1 /\ snapshot = -1

Init ==
  /\ args \in [url : UrlArgs, channels : ChannelArgs, debug : BOOLEAN,
               pull : BOOLEAN, time : TimeArgs, messages : MessagesArgs,
               level : LevelArgs, size : SizeArgs]
  /\ InitState

\* Debug-mode command lines without a URL.
InitDebug ==
  /\ args \in [url : {NoUrl}, channels : {<<>>}, debug : {TRUE},
               pull : BOOLEAN, time : {NoText, Text(Num(1))},
               messages : {NoText} \cup {Text(Num(n)) : n \in 0..MaxMsgs},
               level : {Text(Num(0)), Text(Num(1))}, size : {NoText}]
  /\ InitState

\* Command lines that go through every print level, with few other choices.
InitLevels ==
  /\ args \in [url : UrlArgs, channels : ChannelArgs, debug : BOOLEAN,
               pull : {FALSE}, time : {NoText, Text(Num(1))},
               messages : {NoText, Text(Num(1))},
               level : {NoText} \cup {Text(Num(n)) : n \in 0..MaxPrintLevel},
               size : {NoText, Text(Num(5))}]
  /\ InitState

\* ------------------------------------------------------------------ main
\* Variant of exit! that ends the process with status 0.
Exit_StatusZero(cause) ==
  /\ pc' = "done"
  /\ exitCode' = ExitSuccess
  /\ failure' = cause

\* exit!(...): eprintln! then std::process::exit(1); no destructor runs.
Exit(cause) ==
  /\ pc' = "done"
  /\ exitCode' = ExitFailure
  /\ failure' = cause

\* A panic raised by .expect(..) in main: the stack unwinds and the process
\* ends with the panic status.  Only values that already exist are dropped.
Panic(cause) ==
  /\ pc' = "done"
  /\ exitCode' = PanicExitCode
  /\ failure' = cause

\* `if let Some(text) = matches.get_one(..) { match text.parse() {Ok(number)
\* => Some(number), Err(_) => exit!} } else { None }` with r the parse result
ParseOption(arg, r) == IF arg.given THEN Some(r.val) ELSE None

ParseFails(arg, r) == arg.given /\ ~r.ok

\* main.rs:152-206: read the flags; the first numeric flag that does not
\* parse ends the process through exit!.
ParseArgs ==
  /\ pc = "parse"
  /\ IF \/ ParseFails(args.time, parse_i64(args.time.text))
        \/ ParseFails(args.messages, parse_unsigned(args.messages.text))
        \/ ParseFails(args.level, parse_unsigned(args.level.text))
        \/ ParseFails(args.size, parse_unsigned(args.size.text))
     THEN /\ Exit("parse")
          /\ UNCHANGED <<socket_type, debug, time, messages, level, size,
                         url, channels>>
     ELSE /\ socket_type' = IF args.pull THEN "PULL" ELSE "SUB"
          /\ debug' = args.debug
          /\ time' = ParseOption(args.time, parse_i64(args.time.text))
          /\ messages' = ParseOption(args.messages, parse_unsigned(args.messages.text))
          /\ level' = ParseOption(args.level, parse_unsigned(args.level.text))
          /\ size' = ParseOption(args.size, parse_unsigned(args.size.text))
          /\ url' = args.url
          /\ channels' = args.channels
          /\ pc' = "check"
          /\ UNCHANGED <<exitCode, failure>>
  /\ UNCHANGED <<args, endpoint, provenance, dispatcherCalls>>
  /\ UNCHANGED <<newVars, bgVars, clockVars, dropVars>>

\* Variant of the target check that lets every command line through.
CheckTarget_NoCheck ==
  /\ pc = "check"
  /\ pc' = "resolve"
  /\ UNCHANGED <<args, exitCode, failure, socket_type, debug, time, messages,
                 level, size, url, channels, endpoint, provenance,
                 dispatcherCalls>>
  /\ UNCHANGED <<newVars, bgVars, clockVars, dropVars>>

\* main.rs:208-212: without debug mode a URL or a channel is required.
CheckTarget ==
  /\ pc = "check"
  /\ IF ~debug /\ ~url.some /\ channels = <<>>
     THEN Exit("notarget")
     ELSE pc' = "resolve" /\ UNCHANGED <<exitCode, failure>>
  /\ UNCHANGED <<args, socket_type, debug, time, messages, level, size, url,
                 channels, endpoint, provenance, dispatcherCalls>>
  /\ UNCHANGED <<newVars, bgVars, clockVars, dropVars>>

\* Variant of the resolution in which debug mode wins over a given URL.
ResolveEndpoint_DebugFirst ==
  /\ pc = "resolve"
  /\ IF debug
     THEN /\ endpoint' = LoopbackEndpoint
          /\ provenance' = "loopback"
          /\ pc' = "default"
          /\ UNCHANGED <<exitCode, failure, dispatcherCalls>>
     ELSE IF url.some
     THEN /\ endpoint' = url.val
          /\ provenance' = "literal"
          /\ pc' = "default"
          /\ UNCHANGED <<exitCode, failure, dispatcherCalls>>
     ELSE /\ dispatcherCalls' = dispatcherCalls + 1
          /\ \/ /\ endpoint' = DispatcherEndpoint
                /\ provenance' = "dispatcher"
                /\ pc' = "default"
                /\ UNCHANGED <<exitCode, failure>>
             \/ /\ Exit("dispatcher")
                /\ UNCHANGED <<endpoint, provenance>>
  /\ UNCHANGED <<args, socket_type, debug, time, messages, level, size, url,
                 channels>>
  /\ UNCHANGED <<newVars, bgVars, clockVars, dropVars>>

\* main.rs:213-229: the endpoint is the URL, else the loopback address in
\* debug mode, else what the dispatcher returns for the channels.  The
\* dispatcher request may fail, which ends the process through exit!.
ResolveEndpoint ==
  /\ pc = "resolve"
  /\ IF url.some
     THEN /\ endpoint' = url.val
          /\ provenance' = "literal"
          /\ pc' = "default"
          /\ UNCHANGED <<exitCode, failure, dispatcherCalls>>
     ELSE IF debug
     THEN /\ endpoint' = LoopbackEndpoint
          /\ provenance' = "loopback"
          /\ pc' = "default"
          /\ UNCHANGED <<exitCode, failure, dispatcherCalls>>
     ELSE /\ dispatcherCalls' = dispatcherCalls + 1
          /\ \/ /\ endpoint' = DispatcherEndpoint
                /\ provenance' = "dispatcher"
                /\ pc' = "default"
                /\ UNCHANGED <<exitCode, failure>>
             \/ /\ Exit("dispatcher")
                /\ UNCHANGED <<endpoint, provenance>>
  /\ UNCHANGED <<args, socket_type, debug, time, messages, level, size, url,
                 channels>>
  /\ UNCHANGED <<newVars, bgVars, clockVars, dropVars>>

\* Variant of the default that adds a message bound whenever none is given.
DefaultBound_WheneverNoCount ==
  /\ pc = "default"
  /\ messages' = IF ~messages.some THEN Some(DefaultMessages) ELSE messages
  /\ pc' = "new_sender"
  /\ UNCHANGED <<args, exitCode, failure, socket_type, debug, time, level,
                 size, url, channels, endpoint, provenance, dispatcherCalls>>
  /\ UNCHANGED <<newVars, bgVars, clockVars, dropVars>>

\* main.rs:230-232: with neither bound given, one message is awaited.
DefaultBound ==
  /\ pc = "default"
  /\ messages' = IF ~messages.some /\ ~time.some THEN Some(DefaultMessages)
                 ELSE messages
  /\ pc' = "new_sender"
  /\ UNCHANGED <<args, exitCode, failure, socket_type, debug, time, level,
                 size, url, channels, endpoint, provenance, dispatcherCalls>>
  /\ UNCHANGED <<newVars, bgVars, clockVars, dropVars>>

\* ---------------------------------------------------------- Context::new
\* Variant of the sender start that does not look at the debug flag.
NewStartSender_Always ==
  /\ pc = "new_sender"
  /\ IF TRUE
     THEN \/ /\ sender' = [state |-> "running",
                           socket |-> IF socket_type = "PULL" THEN "PUSH" ELSE "PUB",
                           port |-> DebugPort,
                           starts |-> sender.starts + 1]
             /\ pc' = "new_bsread"
             /\ UNCHANGED <<exitCode, failure>>
          \/ /\ Panic("sender")
             /\ UNCHANGED sender
     ELSE /\ pc' = "new_bsread"
          /\ UNCHANGED <<sender, exitCode, failure>>
  /\ UNCHANGED <<args, socket_type, debug, time, messages, level, size, url,
                 channels, endpoint, provenance, dispatcherCalls>>
  /\ UNCHANGED <<bsreadOpen, receiver, ctx>>
  /\ UNCHANGED <<bgVars, clockVars, dropVars>>

\* Variant of the sender start with the two socket types exchanged.
NewStartSender_Swapped ==
  /\ pc = "new_sender"
  /\ IF debug
     THEN \/ /\ sender' = [state |-> "running",
                           socket |-> IF socket_type = "PULL" THEN "PUB" ELSE "PUSH",
                           port |-> DebugPort,
                           starts |-> sender.starts + 1]
             /\ pc' = "new_bsread"
             /\ UNCHANGED <<exitCode, failure>>
          \/ /\ Panic("sender")
             /\ UNCHANGED sender
     ELSE /\ pc' = "new_bsread"
          /\ UNCHANGED <<sender, exitCode, failure>>
  /\ UNCHANGED <<args, socket_type, debug, time, messages, level, size, url,
                 channels, endpoint, provenance, dispatcherCalls>>
  /\ UNCHANGED <<bsreadOpen, receiver, ctx>>
  /\ UNCHANGED <<bgVars, clockVars, dropVars>>

\* main.rs:26-29: in debug mode a sender is started on port 10300 with the
\* socket type that complements the client's.  A failure panics (.expect).
NewStartSender ==
  /\ pc = "new_sender"
  /\ IF debug
     THEN \/ /\ sender' = [state |-> "running",
                           socket |-> IF socket_type = "PULL" THEN "PUSH" ELSE "PUB",
                           port |-> DebugPort,
                           starts |-> sender.starts + 1]
             /\ pc' = "new_bsread"
             /\ UNCHANGED <<exitCode, failure>>
          \/ /\ Panic("sender")
             /\ UNCHANGED sender
     ELSE /\ pc' = "new_bsread"
          /\ UNCHANGED <<sender, exitCode, failure>>
  /\ UNCHANGED <<args, socket_type, debug, time, messages, level, size, url,
                 channels, endpoint, provenance, dispatcherCalls>>
  /\ UNCHANGED <<bsreadOpen, receiver, ctx>>
  /\ UNCHANGED <<bgVars, clockVars, dropVars>>

\* main.rs:30: Bsread::new().expect("Failed to open bsread").  The Context
\* does not exist yet, so a panic here runs no Context::drop.
NewBsread ==
  /\ pc = "new_bsread"
  /\ \/ /\ bsreadOpen' = TRUE
        /\ pc' = "new_receiver"
        /\ UNCHANGED <<exitCode, failure>>
     \/ /\ Panic("bsread")
        /\ UNCHANGED bsreadOpen
  /\ UNCHANGED <<args, socket_type, debug, time, messages, level, size, url,
                 channels, endpoint, provenance, dispatcherCalls>>
  /\ UNCHANGED <<sender, receiver, ctx>>
  /\ UNCHANGED <<bgVars, clockVars, dropVars>>

\* main.rs:31-32 and 235: the receiver is created for the endpoint and the
\* Context is built with the defaults of level and size; a failure panics.
NewReceiver ==
  /\ pc = "new_receiver"
  /\ \/ /\ receiver' = [made |-> TRUE, endpoint |-> endpoint,
                        socket_type |-> socket_type]
        /\ ctx' = [live |-> TRUE,
                   level |-> IF level.some THEN level.val ELSE DefaultLevel,
                   size |-> IF size.some THEN size.val ELSE DefaultSize,
                   debug |-> debug]
        /\ pc' = "fork"
        /\ UNCHANGED <<exitCode, failure>>
     \/ /\ Panic("receiver")
        /\ UNCHANGED <<receiver, ctx>>
  /\ UNCHANGED <<args, socket_type, debug, time, messages, level, size, url,
                 channels, endpoint, provenance, dispatcherCalls>>
  /\ UNCHANGED <<sender, bsreadOpen>>
  /\ UNCHANGED <<bgVars, clockVars, dropVars>>

\* -------------------------------------------------------- Context::start
\* main.rs:36-38: fork starts the background loop with the message bound
\* and returns at once.
StartFork ==
  /\ pc = "fork"
  /\ bgpc' = "idle"
  /\ bound' = messages
  /\ forkTime' = now
  /\ pc' = "sleep"
  /\ UNCHANGED <<args, exitCode, failure, socket_type, debug, time, messages,
                 level, size, url, channels, endpoint, provenance,
                 dispatcherCalls>>
  /\ UNCHANGED <<interrupted, bgError, delivered, stats, upstream, upstreamTotal,
                 printed>>
  /\ UNCHANGED <<now, wakeAt, interruptTime, bgExitTime>>
  /\ UNCHANGED <<newVars, dropVars>>

\* Variant of the sleep duration that does not sleep for a non-positive time.
SleepMillis_ZeroIfNonPositive(tm) == IF tm > 0 THEN tm ELSE 0

\* Variant of the sleep duration that is one millisecond short.
SleepMillis_Short(tm) == IF tm > 0 THEN tm - 1 ELSE ForeverMillis

\* main.rs:40: Duration::from_millis(if tm>0 {tm as u64} else {u64::MAX})
SleepMillis(tm) == IF tm > 0 THEN tm ELSE ForeverMillis

\* Variant of the wait in which a message bound replaces the sleep.
StartSleep_UnlessBound ==
  /\ pc = "sleep"
  /\ IF time.some /\ ~messages.some
     THEN wakeAt' = now + SleepMillis(time.val) /\ pc' = "sleeping"
     ELSE UNCHANGED wakeAt /\ pc' = "wait"
  /\ UNCHANGED <<args, exitCode, failure, socket_type, debug, time, messages,
                 level, size, url, channels, endpoint, provenance,
                 dispatcherCalls>>
  /\ UNCHANGED <<now, forkTime, interruptTime, bgExitTime>>
  /\ UNCHANGED <<newVars, bgVars, dropVars>>

\* main.rs:39-41: with a time bound the thread goes to sleep.
StartSleep ==
  /\ pc = "sleep"
  /\ IF time.some
     THEN wakeAt' = now + SleepMillis(time.val) /\ pc' = "sleeping"
     ELSE UNCHANGED wakeAt /\ pc' = "wait"
  /\ UNCHANGED <<args, exitCode, failure, socket_type, debug, time, messages,
                 level, size, url, channels, endpoint, provenance,
                 dispatcherCalls>>
  /\ UNCHANGED <<now, forkTime, interruptTime, bgExitTime>>
  /\ UNCHANGED <<newVars, bgVars, dropVars>>

\* main.rs:40: thread::sleep returns once at least the duration has passed.
Wake ==
  /\ pc = "sleeping"
  /\ now >= wakeAt
  /\ pc' = "wait"
  /\ UNCHANGED <<args, exitCode, failure, socket_type, debug, time, messages,
                 level, size, url, channels, endpoint, provenance,
                 dispatcherCalls>>
  /\ UNCHANGED <<newVars, bgVars, clockVars, dropVars>>

\* Variant of the wait in which an error of join ends the process through
\* exit! instead of being returned to main.
WaitJoin_ExitOnErr ==
  /\ pc = "wait"
  /\ IF messages.some
     THEN /\ bgpc = "exited"
          /\ IF bgError
             THEN /\ Exit("start")
                  /\ startResult' = "Err"
             ELSE /\ startResult' = "Ok"
                  /\ pc' = "drop_interrupt"
                  /\ UNCHANGED <<exitCode, failure>>
     ELSE /\ startResult' = "Ok"
          /\ pc' = "drop_interrupt"
          /\ UNCHANGED <<exitCode, failure>>
  /\ UNCHANGED <<args, socket_type, debug, time, messages, level, size, url,
                 channels, endpoint, provenance, dispatcherCalls>>
  /\ UNCHANGED <<tdlog, deliveredAtInterrupt, deliveredAtJoin, snapshot>>
  /\ UNCHANGED <<newVars, bgVars, clockVars>>

\* Variant of the wait that interrupts the receiver when join fails.
WaitJoin_InterruptOnErr ==
  /\ pc = "wait"
  /\ IF messages.some
     THEN /\ bgpc = "exited"
          /\ startResult' = IF bgError THEN "Err" ELSE "Ok"
          /\ interrupted' = (interrupted \/ bgError)
     ELSE startResult' = "Ok" /\ UNCHANGED interrupted
  /\ pc' = "drop_interrupt"
  /\ UNCHANGED <<args, exitCode, failure, socket_type, debug, time, messages,
                 level, size, url, channels, endpoint, provenance,
                 dispatcherCalls>>
  /\ UNCHANGED <<tdlog, deliveredAtInterrupt, deliveredAtJoin, snapshot>>
  /\ UNCHANGED <<bgpc, bound, bgError, delivered, stats, upstream, upstreamTotal,
                 printed>>
  /\ UNCHANGED <<newVars, clockVars>>

\* Variant of the wait that does not join the background thread.
WaitJoin_NoJoin ==
  /\ pc = "wait"
  /\ startResult' = "Ok"
  /\ pc' = "drop_interrupt"
  /\ UNCHANGED <<args, exitCode, failure, socket_type, debug, time, messages,
                 level, size, url, channels, endpoint, provenance,
                 dispatcherCalls>>
  /\ UNCHANGED <<tdlog, deliveredAtInterrupt, deliveredAtJoin, snapshot>>
  /\ UNCHANGED <<newVars, bgVars, clockVars>>

\* main.rs:42-45 and 236: with a message bound, start joins the background
\* thread; join returns when the thread has exited, with Err if it ended
\* with an error.  `?` returns the Err; main discards the result of start.
WaitJoin ==
  /\ pc = "wait"
  /\ IF messages.some
     THEN /\ bgpc = "exited"
          /\ startResult' = IF bgError THEN "Err" ELSE "Ok"
     ELSE startResult' = "Ok"
  /\ pc' = "drop_interrupt"
  /\ UNCHANGED <<args, exitCode, failure, socket_type, debug, time, messages,
                 level, size, url, channels, endpoint, provenance,
                 dispatcherCalls>>
  /\ UNCHANGED <<tdlog, deliveredAtInterrupt, deliveredAtJoin, snapshot>>
  /\ UNCHANGED <<newVars, bgVars, clockVars>>

\* --------------------------------------------------------- Context::drop
\* Variant of drop that goes from interrupt() straight to the statistics.
DropInterrupt_NoJoin ==
  /\ pc = "drop_interrupt"
  /\ interrupted' = TRUE
  /\ tdlog' = Append(tdlog, "interrupt")
  /\ interruptTime' = now
  /\ deliveredAtInterrupt' = delivered
  /\ pc' = "drop_stats"
  /\ UNCHANGED <<args, exitCode, failure, socket_type, debug, time, messages,
                 level, size, url, channels, endpoint, provenance,
                 dispatcherCalls>>
  /\ UNCHANGED <<bgpc, bound, bgError, delivered, stats, upstream, upstreamTotal,
                 printed>>
  /\ UNCHANGED <<now, forkTime, wakeAt, bgExitTime>>
  /\ UNCHANGED <<startResult, deliveredAtJoin, snapshot>>
  /\ UNCHANGED newVars

\* main.rs:51: self.receiver.interrupt()
DropInterrupt ==
  /\ pc = "drop_interrupt"
  /\ interrupted' = TRUE
  /\ tdlog' = Append(tdlog, "interrupt")
  /\ interruptTime' = now
  /\ deliveredAtInterrupt' = delivered
  /\ pc' = "drop_join"
  /\ UNCHANGED <<args, exitCode, failure, socket_type, debug, time, messages,
                 level, size, url, channels, endpoint, provenance,
                 dispatcherCalls>>
  /\ UNCHANGED <<bgpc, bound, bgError, delivered, stats, upstream, upstreamTotal,
                 printed>>
  /\ UNCHANGED <<now, forkTime, wakeAt, bgExitTime>>
  /\ UNCHANGED <<startResult, deliveredAtJoin, snapshot>>
  /\ UNCHANGED newVars

\* Variant of the join of drop that waits only for a loop with a message
\* bound.
DropJoin_OnlyIfBounded ==
  /\ pc = "drop_join"
  /\ bound.some => bgpc = "exited"
  /\ tdlog' = Append(tdlog, "join")
  /\ deliveredAtJoin' = delivered
  /\ pc' = "drop_stats"
  /\ UNCHANGED <<args, exitCode, failure, socket_type, debug, time, messages,
                 level, size, url, channels, endpoint, provenance,
                 dispatcherCalls>>
  /\ UNCHANGED <<startResult, deliveredAtInterrupt, snapshot>>
  /\ UNCHANGED <<newVars, bgVars, clockVars>>

\* Variant of the join of drop that returns without waiting for the thread.
DropJoin_NoWait ==
  /\ pc = "drop_join"
  /\ tdlog' = Append(tdlog, "join")
  /\ deliveredAtJoin' = delivered
  /\ pc' = "drop_stats"
  /\ UNCHANGED <<args, exitCode, failure, socket_type, debug, time, messages,
                 level, size, url, channels, endpoint, provenance,
                 dispatcherCalls>>
  /\ UNCHANGED <<startResult, deliveredAtInterrupt, snapshot>>
  /\ UNCHANGED <<newVars, bgVars, clockVars>>

\* main.rs:52: self.receiver.join(); returns when the background thread has
\* exited, the result is discarded.
DropJoin ==
  /\ pc = "drop_join"
  /\ bgpc = "exited"
  /\ tdlog' = Append(tdlog, "join")
  /\ deliveredAtJoin' = delivered
  /\ pc' = "drop_stats"
  /\ UNCHANGED <<args, exitCode, failure, socket_type, debug, time, messages,
                 level, size, url, channels, endpoint, provenance,
                 dispatcherCalls>>
  /\ UNCHANGED <<startResult, deliveredAtInterrupt, snapshot>>
  /\ UNCHANGED <<newVars, bgVars, clockVars>>

\* Variant of the statistics step that needs a level above 1.
DropStats_AboveOne ==
  /\ pc = "drop_stats"
  /\ IF ctx.level > 1
     THEN tdlog' = Append(tdlog, "stats") /\ snapshot' = stats
     ELSE UNCHANGED <<tdlog, snapshot>>
  /\ pc' = "drop_stop"
  /\ UNCHANGED <<args, exitCode, failure, socket_type, debug, time, messages,
                 level, size, url, channels, endpoint, provenance,
                 dispatcherCalls>>
  /\ UNCHANGED <<startResult, deliveredAtInterrupt, deliveredAtJoin>>
  /\ UNCHANGED <<newVars, bgVars, clockVars>>

\* main.rs:53-55: the statistics are read and printed if level > 0.
DropStats ==
  /\ pc = "drop_stats"
  /\ IF ctx.level > 0
     THEN tdlog' = Append(tdlog, "stats") /\ snapshot' = stats
     ELSE UNCHANGED <<tdlog, snapshot>>
  /\ pc' = "drop_stop"
  /\ UNCHANGED <<args, exitCode, failure, socket_type, debug, time, messages,
                 level, size, url, channels, endpoint, provenance,
                 dispatcherCalls>>
  /\ UNCHANGED <<startResult, deliveredAtInterrupt, deliveredAtJoin>>
  /\ UNCHANGED <<newVars, bgVars, clockVars>>

\* Variant of the last step of drop that leaves the senders alone.
DropStopSenders_Never ==
  /\ pc = "drop_stop"
  /\ ctx' = [ctx EXCEPT !.live = FALSE]
  /\ pc' = "return"
  /\ UNCHANGED <<args, exitCode, failure, socket_type, debug, time, messages,
                 level, size, url, channels, endpoint, provenance,
                 dispatcherCalls>>
  /\ UNCHANGED <<sender, bsreadOpen, receiver>>
  /\ UNCHANGED <<bgVars, clockVars, dropVars>>

\* main.rs:56-59: the debug senders are stopped if the Context is a debug
\* one; the Context is gone afterwards.
DropStopSenders ==
  /\ pc = "drop_stop"
  /\ IF ctx.debug
     THEN /\ tdlog' = Append(tdlog, "stop")
          /\ sender' = [sender EXCEPT !.state = "stopped"]
     ELSE UNCHANGED <<tdlog, sender>>
  /\ ctx' = [ctx EXCEPT !.live = FALSE]
  /\ pc' = "return"
  /\ UNCHANGED <<args, exitCode, failure, socket_type, debug, time, messages,
                 level, size, url, channels, endpoint, provenance,
                 dispatcherCalls>>
  /\ UNCHANGED <<bsreadOpen, receiver>>
  /\ UNCHANGED <<startResult, deliveredAtInterrupt, deliveredAtJoin, snapshot>>
  /\ UNCHANGED <<bgVars, clockVars>>

\* main.rs:237: main returns, the process ends with status 0.
MainReturn ==
  /\ pc = "return"
  /\ pc' = "done"
  /\ exitCode' = ExitSuccess
  /\ UNCHANGED <<args, failure, socket_type, debug, time, messages, level,
                 size, url, channels, endpoint, provenance, dispatcherCalls>>
  /\ UNCHANGED <<newVars, bgVars, clockVars, dropVars>>

\* ------------------------------------------- background receive loop
\* The closure given to fork at main.rs:38 runs on the background thread:
\* one message at a time is received and handed to on_message, until the
\* bound is reached or the interrupt flag is seen.
BoundReached == bound.some /\ delivered >= bound.val

BgReceive ==
  /\ bgpc = "idle"
  /\ ~interrupted
  /\ ~BoundReached
  /\ upstream > 0
  /\ upstream' = upstream - 1
  /\ bgpc' = "busy"
  /\ UNCHANGED <<bound, interrupted, bgError, delivered, stats, upstreamTotal,
                 printed>>
  /\ UNCHANGED <<mainVars, newVars, clockVars, dropVars>>

\* Variant of on_message whose headers come with the data, from level 3 on.
on_message_HeadersAt3(lvl, sz) ==
  [called |-> TRUE, size |-> sz,
   print_main_header |-> lvl >= 3,
   print_data_header |-> lvl >= 3,
   print_meta |-> lvl = 2,
   print_data |-> lvl >= 3]

\* main.rs:7-14: on_message derives the four print flags from the level and
\* calls debug::print_message with them and the size.
on_message(lvl, sz) ==
  [called |-> TRUE, size |-> sz,
   print_main_header |-> lvl > 3,
   print_data_header |-> lvl > 3,
   print_meta |-> lvl = 2,
   print_data |-> lvl >= 3]

\* main.rs:38: on_message(&msg, print_level, print_size) for the received
\* message; a message being processed completes even if interrupt() was
\* called meanwhile.
BgCallback ==
  /\ bgpc = "busy"
  /\ delivered' = delivered + 1
  /\ stats' = stats + 1
  /\ printed' = on_message(ctx.level, ctx.size)
  /\ bgpc' = "idle"
  /\ UNCHANGED <<bound, interrupted, bgError, upstream, upstreamTotal>>
  /\ UNCHANGED <<mainVars, newVars, clockVars, dropVars>>

\* The loop ends when it finds the bound reached or the interrupt flag set.
BgExit ==
  /\ bgpc = "idle"
  /\ interrupted \/ BoundReached
  /\ bgpc' = "exited"
  /\ bgExitTime' = now
  /\ UNCHANGED <<bound, interrupted, bgError, delivered, stats, upstream, upstreamTotal,
                 printed>>
  /\ UNCHANGED <<now, forkTime, wakeAt, interruptTime>>
  /\ UNCHANGED <<mainVars, newVars, dropVars>>

\* The thread ends with an error (the Err that join() returns at
\* main.rs:43), before its bound is reached.
BgFail ==
  /\ bgpc \in {"idle", "busy"}
  /\ bgpc' = "exited"
  /\ bgError' = TRUE
  /\ bgExitTime' = now
  /\ UNCHANGED <<bound, interrupted, delivered, stats, upstream, upstreamTotal,
                 printed>>
  /\ UNCHANGED <<now, forkTime, wakeAt, interruptTime>>
  /\ UNCHANGED <<mainVars, newVars, dropVars>>

\* ------------------------------------------------------------------ clock
\* Time passes; the clock is observed from the construction of the Context
\* until its teardown starts.
Tick ==
  /\ ctx.live
  /\ interruptTime = -1
  /\ now < MaxTime
  /\ now' = now + 1
  /\ UNCHANGED <<forkTime, wakeAt, interruptTime, bgExitTime>>
  /\ UNCHANGED <<mainVars, newVars, bgVars, dropVars>>

Next ==
  \/ ParseArgs \/ CheckTarget \/ ResolveEndpoint \/ DefaultBound
  \/ NewStartSender \/ NewBsread \/ NewReceiver
  \/ StartFork \/ StartSleep \/ Wake \/ WaitJoin
  \/ DropInterrupt \/ DropJoin \/ DropStats \/ DropStopSenders \/ MainReturn
  \/ BgReceive \/ BgCallback \/ BgExit \/ BgFail
  \/ Tick

Spec == Init /\ [][Next]_vars

SpecLevels == InitLevels /\ [][Next]_vars

\* The steps of the main thread and of the background thread; the operating
\* system keeps scheduling a thread that can run.  A failure of the
\* background thread (BgFail) is possible but never forced.
MainNext ==
  \/ ParseArgs \/ CheckTarget \/ ResolveEndpoint \/ DefaultBound
  \/ NewStartSender \/ NewBsread \/ NewReceiver
  \/ StartFork \/ StartSleep \/ Wake \/ WaitJoin
  \/ DropInterrupt \/ DropJoin \/ DropStats \/ DropStopSenders \/ MainReturn

BgNext == BgReceive \/ BgCallback \/ BgExit

FairSpecDebug ==
  /\ InitDebug /\ [][Next]_vars
  /\ WF_vars(MainNext) /\ WF_vars(BgNext) /\ WF_vars(Tick)

TypeOK ==
  /\ pc \in {"parse", "check", "resolve", "default", "new_sender",
             "new_bsread", "new_receiver", "fork", "sleep", "sleeping",
             "wait", "drop_interrupt", "drop_join", "drop_stats",
             "drop_stop", "return", "done"}
  /\ exitCode \in {-1, ExitSuccess, ExitFailure, PanicExitCode}
  /\ bgpc \in {"none", "idle", "busy", "exited"}
  /\ delivered \in 0..MaxUpstream
  /\ now \in 0..MaxTime

\* ------------------------------------------------------------ properties
\* What Context::drop has to call for this Context, in order.
TeardownSteps ==
  <<"interrupt", "join">>
    \o (IF ctx.level > 0 THEN <<"stats">> ELSE <<>>)
    \o (IF sender.state # "none" THEN <<"stop">> ELSE <<>>)

IsPrefix(s, t) == Len(s) <= Len(t) /\ \A i \in 1..Len(s) : s[i] = t[i]

ContextBuilt == receiver.made
TeardownBegun == interruptTime # -1
TimeBound == time.some /\ time.val > 0

\* C1: the calls of a teardown are, in this order, interrupt(), join(), the
\* statistics (only if the print level is > 0) and the stop of the debug
\* sender (only if one was started); at no moment has a later step been
\* made without the earlier ones, and a finished teardown has made them all.
C1_TeardownOrder ==
  /\ IsPrefix(tdlog, TeardownSteps)
  /\ (ContextBuilt /\ pc \in {"return", "done"}) => tdlog = TeardownSteps

C1_Witness ==
  pc = "done" /\ tdlog = <<"interrupt", "join", "stats", "stop">>

C3_SenderStoppedOnFailure ==
  (pc = "done" /\ failure \in {"bsread", "receiver"} /\ sender.state # "none")
    => sender.state = "stopped"

CountOnly == messages.some /\ ~time.some

C5_InterruptAfterT ==
  (TeardownBegun /\ TimeBound /\ ~messages.some)
    => interruptTime >= forkTime + time.val

C5_Witness ==
  /\ TeardownBegun /\ TimeBound /\ ~messages.some
  /\ forkTime > 0
  /\ interruptTime = forkTime + time.val

\* C6: once the join() of the teardown has returned, no further message is
\* handed to on_message; a message that was being processed when
\* interrupt() was called is completed before that join() returns.
C6_NoDeliveryAfterJoin ==
  [][deliveredAtJoin # -1 => (delivered' = delivered /\ stats' = stats)]_vars

C6_Witness ==
  /\ deliveredAtJoin # -1
  /\ deliveredAtJoin > deliveredAtInterrupt
  /\ pc = "done"

Both == TimeBound /\ messages.some

NoTarget == ~args.url.some /\ args.channels = <<>> /\ ~args.debug

\* C8: a run with no URL, no channel and debug mode off ends with exit
\* code 1 and at no moment has called the dispatcher, started a debug
\* sender, opened the library or constructed a receiver.
C8_NoTargetNoNetwork ==
  NoTarget =>
    /\ dispatcherCalls = 0
    /\ sender.state = "none"
    /\ ~bsreadOpen /\ ~receiver.made /\ bgpc = "none"
    /\ pc \in {"parse", "check", "done"}
    /\ pc = "done" => exitCode = ExitFailure

C8_Witness ==
  NoTarget /\ pc = "done" /\ failure = "notarget" /\ exitCode = ExitFailure

\* C9: a resolved endpoint has exactly one provenance, with the priority
\* URL, then debug loopback, then dispatcher: the URL verbatim if one is
\* given, else tcp://127.0.0.1:10300 in debug mode, else the address the
\* dispatcher returned; the dispatcher is called only in the third case.
C9_EndpointProvenance ==
  /\ dispatcherCalls > 0 => (~args.url.some /\ ~args.debug /\ dispatcherCalls = 1)
  /\ provenance # "none" =>
       IF args.url.some
       THEN provenance = "literal" /\ endpoint = args.url.val
            /\ dispatcherCalls = 0
       ELSE IF args.debug
       THEN provenance = "loopback" /\ endpoint = "tcp://127.0.0.1:10300"
            /\ dispatcherCalls = 0
       ELSE provenance = "dispatcher" /\ endpoint = DispatcherEndpoint
            /\ dispatcherCalls = 1
  /\ receiver.made => (provenance # "none" /\ receiver.endpoint = endpoint)

C9_Witness ==
  /\ receiver.made /\ args.url.some /\ args.debug
  /\ receiver.endpoint = args.url.val

ValidationFailure == failure \in {"parse", "notarget"}
ResolutionFailure == failure = "dispatcher"
ConstructionFailure == failure \in {"sender", "bsread", "receiver"}

\* C10 as stated: the exit code is 0 for a run that ends without a fatal
\* error and 1 for every validation, resolution and receiver-construction
\* failure.
C10_Original ==
  pc = "done" =>
    /\ failure = "none" => exitCode = 0
    /\ (ValidationFailure \/ ResolutionFailure \/ ConstructionFailure)
         => exitCode = 1

\* C10 amended: the exit code is 0 for a run that ends without a fatal
\* error, 1 for every validation failure and every dispatcher failure, and
\* the panic status 101 for every receiver-construction failure (start of
\* the debug sender, opening the library, creating the receiver).
C10_ExitCodes ==
  pc = "done" =>
    /\ failure = "none" => (exitCode = 0 /\ ContextBuilt)
    /\ (ValidationFailure \/ ResolutionFailure) => exitCode = 1
    /\ ConstructionFailure => exitCode = 101
    /\ failure = "none" \/ ValidationFailure \/ ResolutionFailure
         \/ ConstructionFailure

C10_Witness ==
  pc = "done" /\ failure = "receiver" /\ exitCode = 101 /\ sender.state = "running"

Occurrences(s, x) == Cardinality({i \in 1..Len(s) : s[i] = x})
DropFinished == ContextBuilt /\ pc \in {"return", "done"}

\* C11: a run that completes, by its count bound, its time bound or an
\* error returned by the wait phase, has printed the statistics summary
\* exactly once in its teardown if the print level is > 0, also when no
\* message was received, and has not printed it if the print level is 0.
C11_SummaryOnce ==
  /\ Occurrences(tdlog, "stats") <= 1
  /\ DropFinished =>
       /\ ctx.level > 0 => (Occurrences(tdlog, "stats") = 1 /\ snapshot = stats)
       /\ ctx.level = 0 => (Occurrences(tdlog, "stats") = 0 /\ snapshot = -1)

C11_Witness ==
  /\ pc = "done" /\ ctx.level > 0 /\ level.some
  /\ stats = 0 /\ snapshot = 0
  /\ Occurrences(tdlog, "stats") = 1

\* C12: for every print level L the presenter is called with exactly the
\* sections of the table: main header and data header iff L >= 4, metadata
\* iff L = 2, data values iff L >= 3; so nothing at levels 0 and 1, only
\* metadata at 2, only data values at 3, headers and data values from 4 on.
C12_LevelTable ==
  printed.called =>
    /\ printed.print_main_header <=> ctx.level >= 4
    /\ printed.print_data_header <=> ctx.level >= 4
    /\ printed.print_meta <=> ctx.level = 2
    /\ printed.print_data <=> ctx.level >= 3
    /\ <<printed.print_main_header, printed.print_data_header,
         printed.print_meta, printed.print_data>> =
         CASE ctx.level \in {0, 1} -> <<FALSE, FALSE, FALSE, FALSE>>
           [] ctx.level = 2 -> <<FALSE, FALSE, TRUE, FALSE>>
           [] ctx.level = 3 -> <<FALSE, FALSE, FALSE, TRUE>>
           [] OTHER -> <<TRUE, TRUE, FALSE, TRUE>>
    /\ ctx.level = (IF args.level.given THEN args.level.text.val ELSE 3)
    /\ printed.size = ctx.size

C12_Witness ==
  /\ printed.called /\ ctx.level = 4
  /\ printed.print_main_header /\ printed.print_data_header
  /\ printed.print_data /\ ~printed.print_meta

\* A debug run without URL, with a message bound, no time bound and level 0.
DebugRoundTrip ==
  debug /\ ~url.some /\ messages.some /\ ~time.some /\ level = Some(0)

C13_Ends ==
  (pc = "done" /\ DebugRoundTrip) =>
    IF ContextBuilt
    THEN /\ exitCode = 0
         /\ sender.state = "stopped"
         /\ startResult = "Ok" => stats = messages.val
         /\ stats <= messages.val
    ELSE /\ exitCode = 101
         /\ ConstructionFailure
         /\ stats = 0
         /\ sender.state # "stopped"

ArgOption(arg) == IF arg.given THEN Some(arg.text.val) ELSE None

NonPositiveTime == time.some /\ time.val <= 0

\* C16: with a time bound that is zero or negative the main thread sleeps
\* without end: teardown never begins (no interrupt(), no drop step, no
\* Closed), also when a message bound is configured and already satisfied.
C16_SleepsForever ==
  NonPositiveTime =>
    /\ interruptTime = -1 /\ ~interrupted
    /\ tdlog = <<>>
    /\ pc \notin {"wait", "drop_interrupt", "drop_join", "drop_stats",
                  "drop_stop", "return"}
    /\ pc = "done" => (~ContextBuilt /\ failure # "none")

C16_Witness ==
  /\ NonPositiveTime /\ pc = "sleeping" /\ now = MaxTime
  /\ messages.some /\ messages.val > 0
  /\ bgpc = "exited" /\ ~bgError /\ delivered = messages.val

\* C17: the main thread reads the statistics only when the background
\* thread is no longer alive, after the join() of the teardown returned;
\* the counters do not change once the snapshot has been taken.
C17_StatsReadAfterJoin ==
  /\ pc = "drop_stats" => (bgpc = "exited" /\ deliveredAtJoin # -1)
  /\ snapshot # -1 =>
       /\ bgpc = "exited" /\ deliveredAtJoin # -1
       /\ stats = snapshot

C17_Witness ==
  /\ snapshot # -1 /\ snapshot = stats /\ stats > 0
  /\ ~bound.some /\ pc = "done"

\* C18 as stated: a run whose endpoint is the given URL or comes from the
\* dispatcher starts no debug sender; at most one sender is started, before
\* the receiver is constructed, and it is stopped only in the teardown.
C18_Original ==
  /\ provenance \in {"literal", "dispatcher"} => sender.state = "none"
  /\ sender.starts <= 1
  /\ (receiver.made /\ provenance = "loopback") => sender.state # "none"
  /\ sender.state = "stopped" => (Len(tdlog) > 0 /\ tdlog[Len(tdlog)] = "stop")

\* C18 amended: a debug sender is started exactly when the debug flag is
\* set, as a step of the construction of the Context: also when the
\* endpoint is the given URL, never when it comes from the dispatcher; at
\* most one sender is started in a run, before the receiver is constructed,
\* and it is stopped only in the teardown.
C18_SenderIffDebug ==
  /\ sender.state # "none" => (args.debug /\ provenance \in {"literal", "loopback"})
  /\ provenance = "dispatcher" => sender.state = "none"
  /\ (pc = "new_receiver" \/ receiver.made) => (sender.state # "none" <=> args.debug)
  /\ sender.starts <= 1
  /\ sender.state = "stopped" =>
       (Len(tdlog) > 0 /\ tdlog[Len(tdlog)] = "stop" /\ tdlog = TeardownSteps)

C18_Witness ==
  /\ provenance = "literal" /\ receiver.made
  /\ sender.state = "stopped" /\ pc = "done"

Complement(client) == IF client = "PULL" THEN "PUSH" ELSE "PUB"

\* C19: a started debug sender has the socket type that complements the
\* client's (PUSH for a PULL client, PUB otherwise) and is bound to port
\* 10300, the port of the loopback endpoint; in a debug-loopback run the
\* receiver connects to that endpoint with the matching socket type.
C19_ComplementarySockets ==
  sender.state # "none" =>
    /\ socket_type \in {"PULL", "SUB"}
    /\ sender.socket = Complement(socket_type)
    /\ sender.port = LoopbackPort
    /\ (receiver.made /\ provenance = "loopback") =>
         /\ receiver.endpoint = "tcp://127.0.0.1:10300"
         /\ <<receiver.socket_type, sender.socket>> \in
              {<<"PULL", "PUSH">>, <<"SUB", "PUB">>}

C19_Witness ==
  /\ receiver.made /\ provenance = "loopback"
  /\ receiver.socket_type = "PULL" /\ sender.socket = "PUSH"
  /\ sender.port = 10300

\* C20: when the join of the wait phase returns an error, start returns it
\* without having interrupted the receiver, main drops it, the teardown
\* runs in full exactly once and the process ends with status 0 and no
\* failure reported.
C20_JoinErrorDiscarded ==
  startResult = "Err" =>
    /\ messages.some /\ bgError
    /\ pc = "drop_interrupt" => (~interrupted /\ tdlog = <<>>)
    /\ pc \in {"drop_interrupt", "drop_join", "drop_stats", "drop_stop",
               "return", "done"}
    /\ failure = "none" /\ exitCode \in {-1, 0}
    /\ \A step \in {"interrupt", "join", "stats", "stop"} :
         Occurrences(tdlog, step) <= 1
    /\ pc = "done" => (exitCode = 0 /\ Len(tdlog) >= 2 /\ tdlog = TeardownSteps)

C20_Witness ==
  /\ startResult = "Err" /\ pc = "done" /\ exitCode = 0
  /\ failure = "none" /\ delivered < messages.val
  /\ Occurrences(tdlog, "interrupt") = 1 /\ Occurrences(tdlog, "join") = 1
====
